---- MODULE Spec2Model ----
(***************************************************************************)
(* A state-machine model of the CHIP-8 virtual machine of this repository: *)
(* emulator/emulator.py (class Chip8), emulator/display.py,                *)
(* emulator/sound.py, emulator/input.py and emulator/input_pygame.py, and  *)
(* of the frame loop of main.py.                                           *)
(*                                                                         *)
(* The engine's fields are the variables.  A method of the engine is an    *)
(* operator from an engine record to an engine record; the record's field  *)
(* exc holds the Python exception the call raised ("none" when it returned *)
(* normally), so that the statements after a raise are not executed.       *)
(* run_frame is modelled statement by statement (entry, one loop           *)
(* iteration, exit), with its position in the variable phase.              *)
(***************************************************************************)
EXTENDS Integers, Sequences, FiniteSets, TLC

\* ---------------------------------------------------------------- constants
\* emulator/constants.py is not among the source files; the values are the
\* ones the specification states (4096 bytes, 16 registers, 16 stack slots,
\* 64 x 32 pixels).
MEMORY_SIZE == 4096
STACK_SIZE == 16
V_COUNT == 16
SCREEN_WIDTH == 64
SCREEN_HEIGHT == 32
\* load_rom, __init__ and reset: the address programs are loaded at and start at.
ROM_BASE == 512

\* ------------------------------------------------------------------- bounds
\* cycles_per_frame is drawn from 1..MaxCycles.
MaxCycles == 2
\* The index register is a Python int without a width: Fx1E is not executed
\* once I has passed MaxI.
MaxI == 70000

\* main's clock counts whole ticks: a frame interval (frame_time) is
\* FrameTime ticks, the clock shows StartTime when main first reads it, moves
\* by at most MaxStall ticks between two readings, and stops at MaxNow.
FrameTime == 3
StartTime == 1
MaxStall == 7
MaxNow == 14

Byte == 0..255

\* The font set: sixteen glyphs of five bytes (the values of the standard
\* CHIP-8 font; only their place in memory matters to the model).
FONTSET ==
  << 240, 144, 144, 144, 240,   32,  96,  32,  32, 112,
     240,  16, 240, 128, 240,  240,  16, 240,  16, 240,
     144, 144, 240,  16,  16,  240, 128, 240,  16, 240,
     240, 128, 240, 144, 240,  240,  16,  32,  64,  64,
     240, 144, 240, 144, 240,  240, 144, 240,  16, 240,
     240, 144, 240, 144, 144,  224, 144, 224, 144, 224,
     240, 128, 128, 128, 240,  224, 144, 144, 144, 224,
     240, 128, 240, 128, 240,  240, 128, 240, 128, 128 >>

\* ------------------------------------------------------------ bit arithmetic
\* Python's & | ^ on non-negative integers, bit by bit.
RECURSIVE BitAnd(_, _)
BitAnd(a, b) ==
  IF a = 0 \/ b = 0 THEN 0
  ELSE ((a % 2) * (b % 2)) + (2 * BitAnd(a \div 2, b \div 2))

RECURSIVE BitOr(_, _)
BitOr(a, b) ==
  IF a = 0 THEN b
  ELSE IF b = 0 THEN a
  ELSE (IF a % 2 = 1 \/ b % 2 = 1 THEN 1 ELSE 0) + (2 * BitOr(a \div 2, b \div 2))

RECURSIVE BitXor(_, _)
BitXor(a, b) ==
  IF a = 0 THEN b
  ELSE IF b = 0 THEN a
  ELSE (((a % 2) + (b % 2)) % 2) + (2 * BitXor(a \div 2, b \div 2))

\* ------------------------------------------------------------------- decode
\* decode_and_execute's sub-fields of an opcode.
Nnn(opcode) == BitAnd(opcode, 4095)
Nn(opcode) == BitAnd(opcode, 255)
N(opcode) == BitAnd(opcode, 15)
X(opcode) == BitAnd(opcode, 3840) \div 256
Y(opcode) == BitAnd(opcode, 240) \div 16
Op(opcode) == BitAnd(opcode, 61440) \div 4096

\* -------------------------------------------------------------------- state
VARIABLES
  memory,       \* Chip8.memory: array('B') of MEMORY_SIZE bytes, as the
                \* function from the addresses of its nonzero bytes
  V,            \* Chip8.V: array('B') of V_COUNT registers
  stack,        \* Chip8.stack: array('H') of STACK_SIZE return addresses
  sp,           \* Chip8.sp
  pc,           \* Chip8.pc
  I,            \* Chip8.I
  delay_timer,  \* Chip8.delay_timer
  halted,       \* Chip8.halted
  rom_loaded,   \* Chip8.rom_loaded
  timer,        \* Sound.timer
  playing,      \* Sound.playing
  bell,         \* the last call printed the terminal bell (the sound's cue)
  pixels,       \* Display.pixels, as the set of the <<x, y>> that are 1
  draw_flag,    \* Display.draw_flag
  screen,       \* what render drew last on the terminal or the window, as
                \* << the pixels >>; << >> before the first redraw
  redrawn,      \* the last call made render redraw the screen
  keys,         \* InputHandler.keys / PygameInputHandler.keys
  config,       \* EmulatorConfig and the backend chosen at construction
  phase,        \* where the host is: "idle", or "frame" inside run_frame's loop
  left,         \* iterations run_frame's loop still has to make
  trace,        \* what the current (or last) run_frame call did, in order
  opcode,       \* the opcode the last call fetched (-1: none)
  exc,          \* the exception the last call raised ("none": it returned)
  event,        \* the last call or statement executed
  rom_file,     \* the bytes of the ROM file the host was started with
  now,          \* main's now: its last reading of the clock, in clock ticks
  next_frame,   \* main's next_frame: when the next run_frame call is due
  window,       \* for each key, the type of the last key event the window
                \* produced for it and the engine took from the event queue
                \* ("NONE" before the first)
  snapshot,     \* the file save_state wrote last, << >> before the first
  call,         \* the last draw_sprite call made on the display directly: its
                \* arguments, the pixels before it, what it returned, and the
                \* number of such calls since the display was clear
  dt_set,       \* the value last written into the delay timer
  frames_since  \* the run_frame calls that returned since that write, counted
                \* as far as dt_set

vars == << memory, V, stack, sp, pc, I, delay_timer, halted, rom_loaded, timer,
           playing, bell, pixels, draw_flag, screen, redrawn, keys, config,
           phase, left, trace, opcode, exc, event, rom_file, now, next_frame,
           window, snapshot, call, dt_set, frames_since >>

\* No draw_sprite call was made on the display directly.
NoCall ==
  [ x |-> 0, y |-> 0, sprite |-> << >>, before |-> {}, collision |-> FALSE,
    draws |-> 0 ]

\* The engine with its display, sound and input objects, as one record.
Engine ==
  [ memory |-> memory, V |-> V, stack |-> stack, sp |-> sp, pc |-> pc, I |-> I,
    delay_timer |-> delay_timer, halted |-> halted, rom_loaded |-> rom_loaded,
    timer |-> timer, playing |-> playing, pixels |-> pixels,
    draw_flag |-> draw_flag, screen |-> screen, keys |-> keys,
    config |-> config, opcode |-> -1, exc |-> "none", bell |-> FALSE,
    redrawn |-> FALSE ]

\* The variables take the fields of the engine record s.
Becomes(s) ==
  /\ memory' = s.memory /\ V' = s.V /\ stack' = s.stack /\ sp' = s.sp
  /\ pc' = s.pc /\ I' = s.I /\ delay_timer' = s.delay_timer
  /\ halted' = s.halted /\ rom_loaded' = s.rom_loaded /\ timer' = s.timer
  /\ playing' = s.playing /\ pixels' = s.pixels /\ draw_flag' = s.draw_flag
  /\ keys' = s.keys /\ config' = s.config /\ opcode' = s.opcode /\ exc' = s.exc
  /\ bell' = s.bell /\ screen' = s.screen /\ redrawn' = s.redrawn

\* memory[a] for an address of the array.
Peek(mem, a) == IF a \in DOMAIN mem THEN mem[a] ELSE 0

\* The array after the bytes val[a], a \in addrs, were stored in it.
Poke(mem, addrs, val(_)) ==
  LET new(a) == IF a \in addrs THEN val(a) ELSE mem[a]
  IN  [a \in { b \in DOMAIN mem \cup addrs : new(b) # 0 } |-> new(a)]

\* A raise: the exception leaves the method, the fields stay as they are.
Raise(s, e) == [s EXCEPT !.exc = e]

\* -------------------------------------------------------------------- sound
set_timer(s, value) ==
  LET t == BitAnd(value, 255)
  IN  [s EXCEPT !.timer = t, !.playing = IF t = 0 THEN FALSE ELSE @]

\* Sound.update that rings on every tick of a running timer.
Sound_updateEveryTick(s) ==
  IF s.timer > 0
  THEN [s EXCEPT !.bell = @ \/ s.config.sound_enabled,
                 !.timer = @ - 1, !.playing = (s.timer - 1 # 0)]
  ELSE [s EXCEPT !.playing = FALSE]

Sound_update(s) ==
  IF s.timer > 0
  THEN [s EXCEPT !.bell = @ \/ (~s.playing /\ s.config.sound_enabled),
                 !.timer = @ - 1, !.playing = (s.timer - 1 # 0)]
  ELSE [s EXCEPT !.playing = FALSE]

\* ------------------------------------------------------------------ display
clear(s) == [s EXCEPT !.pixels = {}, !.draw_flag = TRUE]

\* Bit col (0 = most significant) of a sprite byte: sprite_byte & (0x80 >> col).
SpriteBit(byte, col) == (byte \div (2 ^ (7 - col))) % 2

\* draw_sprite's loop over the columns of one row, from column col on, on the
\* display d (its pixels and the collision seen so far): a clear bit is passed
\* over, a set bit at or right of the right edge ends the row.  This one sets
\* the pixel instead of toggling it.
RECURSIVE DrawColsSets(_, _, _, _, _, _)
DrawColsSets(d, x, yy, sprite_byte, col, wrap) ==
  IF col = 8 THEN d
  ELSE IF SpriteBit(sprite_byte, col) = 0
  THEN DrawColsSets(d, x, yy, sprite_byte, col + 1, wrap)
  ELSE LET xx == IF wrap THEN (x + col) % SCREEN_WIDTH ELSE x + col
       IN  IF xx >= SCREEN_WIDTH THEN d
           ELSE IF << xx, yy >> \in d.pixels
           THEN DrawColsSets([ pixels |-> d.pixels, collision |-> TRUE ],
                             x, yy, sprite_byte, col + 1, wrap)
           ELSE DrawColsSets([ pixels |-> d.pixels \cup { << xx, yy >> },
                               collision |-> d.collision ],
                             x, yy, sprite_byte, col + 1, wrap)

\* draw_sprite's loop over the columns of one row, from column col on, on the
\* display d (its pixels and the collision seen so far): a clear bit is passed
\* over, a set bit at or right of the right edge ends the row, any other set
\* bit toggles its pixel.
RECURSIVE DrawCols(_, _, _, _, _, _)
DrawCols(d, x, yy, sprite_byte, col, wrap) ==
  IF col = 8 THEN d
  ELSE IF SpriteBit(sprite_byte, col) = 0
  THEN DrawCols(d, x, yy, sprite_byte, col + 1, wrap)
  ELSE LET xx == IF wrap THEN (x + col) % SCREEN_WIDTH ELSE x + col
       IN  IF xx >= SCREEN_WIDTH THEN d
           ELSE IF << xx, yy >> \in d.pixels
           THEN DrawCols([ pixels |-> d.pixels \ { << xx, yy >> },
                           collision |-> TRUE ],
                         x, yy, sprite_byte, col + 1, wrap)
           ELSE DrawCols([ pixels |-> d.pixels \cup { << xx, yy >> },
                           collision |-> d.collision ],
                         x, yy, sprite_byte, col + 1, wrap)

\* draw_sprite's loop over the rows, from row on: a row at or below the bottom
\* edge ends the draw.
RECURSIVE DrawRows(_, _, _, _, _, _, _)
DrawRows(d, x, y, sprite, height, row, wrap) ==
  IF row >= height THEN d
  ELSE LET yy == IF wrap THEN (y + row) % SCREEN_HEIGHT ELSE y + row
       IN  IF yy >= SCREEN_HEIGHT THEN d
           ELSE DrawRows(DrawCols(d, x, yy, sprite[row + 1], 0, wrap),
                         x, y, sprite, height, row + 1, wrap)

\* draw_sprite that wraps whatever it is told.
draw_spriteAlwaysWraps(px, x, y, sprite, height, wrap) ==
  DrawRows([pixels |-> px, collision |-> FALSE], x, y, sprite, height, 0, TRUE)

\* draw_sprite (Display and PygameDisplay have the same): the pixels after the
\* draw, and whether a set pixel was unset.
draw_sprite(px, x, y, sprite, height, wrap) ==
  DrawRows([pixels |-> px, collision |-> FALSE], x, y, sprite, height, 0, wrap)

DrawCollision(px, x, y, sprite, height, wrap) ==
  draw_sprite(px, x, y, sprite, height, wrap).collision

DrawPixels(px, x, y, sprite, height, wrap) ==
  draw_sprite(px, x, y, sprite, height, wrap).pixels

\* render: nothing unless draw_flag is set; then the whole buffer is drawn.
render(s) ==
  IF ~s.draw_flag THEN s
  ELSE [s EXCEPT !.screen = << s.pixels >>, !.redrawn = TRUE,
                 !.draw_flag = FALSE]

\* -------------------------------------------------------------------- input
\* The characters of the keypad (gui.py documents the layout
\* 123C/456D/789E/A0BF on 1234/QWER/ASDF/ZXCV).
KEYMAP ==
  [ c \in { "1", "2", "3", "4", "q", "w", "e", "r",
            "a", "s", "d", "f", "z", "x", "c", "v" } |->
      CASE c = "1" -> 1  [] c = "2" -> 2  [] c = "3" -> 3  [] c = "4" -> 12
        [] c = "q" -> 4  [] c = "w" -> 5  [] c = "e" -> 6  [] c = "r" -> 13
        [] c = "a" -> 7  [] c = "s" -> 8  [] c = "d" -> 9  [] c = "f" -> 14
        [] c = "z" -> 10 [] c = "x" -> 0  [] c = "c" -> 11 [] c = "v" -> 15 ]

ESC == "esc"

\* InputHandler.update_keys on the characters waiting on stdin.
RECURSIVE ReadChars(_, _)
ReadChars(s, chars) ==
  IF chars = << >> THEN s
  ELSE LET key == Head(chars)
       IN  IF key \in DOMAIN KEYMAP
           THEN ReadChars([s EXCEPT !.keys[KEYMAP[key]] = TRUE], Tail(chars))
           ELSE IF key = ESC THEN Raise(s, "KeyboardInterrupt")
           ELSE ReadChars(s, Tail(chars))

\* update_keys of the backend in use: the pygame handler's does nothing, the
\* terminal handler's reads stdin when it is a terminal.
update_keys(s, chars) ==
  IF s.config.backend = "pygame" THEN s
  ELSE IF ~s.config.isatty THEN s
  ELSE ReadChars(s, chars)

\* PygameInputHandler.handle_event.
handle_event(s, ev) ==
  IF ev.type = "KEYDOWN"
  THEN IF ev.key \in DOMAIN KEYMAP
       THEN [s EXCEPT !.keys[KEYMAP[ev.key]] = TRUE] ELSE s
  ELSE IF ev.type = "KEYUP"
  THEN IF ev.key \in DOMAIN KEYMAP
       THEN [s EXCEPT !.keys[KEYMAP[ev.key]] = FALSE] ELSE s
  ELSE s

\* InputHandler.wait_for_key on the characters typed during the wait, the
\* last of which ends it: a mapped key is recorded and its code returned
\* (field r), ESC raises, any other character is read and dropped.
RECURSIVE InputHandler_wait_for_key(_, _)
InputHandler_wait_for_key(s, chars) ==
  LET key == Head(chars)
  IN  IF key \in DOMAIN KEYMAP
      THEN [r |-> KEYMAP[key], s |-> [s EXCEPT !.keys[KEYMAP[key]] = TRUE]]
      ELSE IF key = ESC
      THEN [r |-> 0, s |-> Raise(s, "KeyboardInterrupt")]
      ELSE InputHandler_wait_for_key(s, Tail(chars))

\* PygameInputHandler.wait_for_key on the events the window produces during
\* the wait, the last of which ends it: QUIT raises, the KEYDOWN of a mapped
\* key is recorded and its code returned, any other event is taken from the
\* queue and dropped.
RECURSIVE PygameInputHandler_wait_for_key(_, _)
PygameInputHandler_wait_for_key(s, evs) ==
  LET ev == Head(evs)
  IN  IF ev.type = "QUIT"
      THEN [r |-> 0, s |-> Raise(s, "KeyboardInterrupt")]
      ELSE IF ev.type = "KEYDOWN" /\ ev.key \in DOMAIN KEYMAP
      THEN [r |-> KEYMAP[ev.key],
            s |-> [s EXCEPT !.keys[KEYMAP[ev.key]] = TRUE]]
      ELSE PygameInputHandler_wait_for_key(s, Tail(evs))

\* wait_for_key of the input handler in use; waited is what arrives during
\* the wait (characters on stdin, or events of the window).
wait_for_key(s, waited) ==
  IF s.config.backend = "pygame"
  THEN PygameInputHandler_wait_for_key(s, waited)
  ELSE IF ~s.config.isatty
  THEN [r |-> 0, s |-> Raise(s, "RuntimeError: wait_for_key not supported")]
  ELSE InputHandler_wait_for_key(s, waited)

\* ------------------------------------------------------------------- engine
\* fetch_opcode with a guard that forgets the second byte.
fetch_opcodeFirstByteOnly(s) ==
  IF s.pc >= MEMORY_SIZE
  THEN [r |-> -1, s |-> Raise([s EXCEPT !.halted = TRUE],
                              "RuntimeError: PC out of bounds")]
  ELSE [r |-> BitOr(Peek(s.memory, s.pc) * 256, Peek(s.memory, s.pc + 1)),
        s |-> [s EXCEPT !.pc = @ + 2]]

\* fetch_opcode: the opcode in field r, the engine after the fetch in field s.
fetch_opcode(s) ==
  IF s.pc >= MEMORY_SIZE \/ s.pc + 1 >= MEMORY_SIZE
  THEN [r |-> -1, s |-> Raise([s EXCEPT !.halted = TRUE],
                              "RuntimeError: PC out of bounds")]
  ELSE [r |-> BitOr(Peek(s.memory, s.pc) * 256, Peek(s.memory, s.pc + 1)),
        s |-> [s EXCEPT !.pc = @ + 2]]

\* 00EE without the check for an empty stack: the index -1 is Python's last
\* element.
ExecRetUnchecked(s) ==
  LET s1 == [s EXCEPT !.sp = @ - 1]
  IN  [s1 EXCEPT !.pc = s1.stack[s1.sp % STACK_SIZE]]

\* 00EE.  The stack is indexed after the pointer was decremented.
ExecRet(s) ==
  IF s.sp = 0
  THEN Raise([s EXCEPT !.halted = TRUE], "RuntimeError: Stack underflow on RET")
  ELSE LET s1 == [s EXCEPT !.sp = @ - 1]
       IN  IF s1.sp >= STACK_SIZE THEN Raise(s1, "IndexError")
           ELSE [s1 EXCEPT !.pc = s1.stack[s1.sp]]

\* 2nnn with the check for a full stack off by one.
ExecCallOffByOne(s, nnn) ==
  IF s.sp > STACK_SIZE
  THEN Raise([s EXCEPT !.halted = TRUE], "RuntimeError: Stack overflow on CALL")
  ELSE [s EXCEPT !.stack = [i \in DOMAIN @ |-> IF i = s.sp THEN s.pc ELSE @[i]],
                 !.sp = @ + 1, !.pc = nnn]

\* 2nnn.
ExecCall(s, nnn) ==
  IF s.sp >= STACK_SIZE
  THEN Raise([s EXCEPT !.halted = TRUE], "RuntimeError: Stack overflow on CALL")
  ELSE [s EXCEPT !.stack[s.sp] = s.pc, !.sp = @ + 1, !.pc = nnn]

\* 8xy4: the data register is written, then VF.
ExecAdd(v, x, y) ==
  LET sum_val == v[x] + v[y]
      v1 == [v EXCEPT ![x] = BitAnd(sum_val, 255)]
  IN  [v1 EXCEPT ![15] = IF sum_val > 255 THEN 1 ELSE 0]

\* 8xy5: VF is written, then the data register from the registers as they
\* then are.
ExecSub(v, x, y) ==
  LET v1 == [v EXCEPT ![15] = IF v[x] > v[y] THEN 1 ELSE 0]
  IN  [v1 EXCEPT ![x] = (v1[x] - v1[y]) % 256]

\* 8xy7: as 8xy5 with the operands exchanged.
ExecSubN(v, x, y) ==
  LET v1 == [v EXCEPT ![15] = IF v[y] > v[x] THEN 1 ELSE 0]
  IN  [v1 EXCEPT ![x] = (v1[y] - v1[x]) % 256]

\* 8xy6 and 8xyE: the source is read, VF is written, then Vx.
ShiftSource(v, x, y, shift_legacy) == IF shift_legacy THEN v[y] ELSE v[x]

ExecShr(v, x, y, shift_legacy) ==
  LET source == ShiftSource(v, x, y, shift_legacy)
      v1 == [v EXCEPT ![15] = BitAnd(source, 1)]
  IN  [v1 EXCEPT ![x] = BitAnd(source \div 2, 255)]

ExecShl(v, x, y, shift_legacy) ==
  LET source == ShiftSource(v, x, y, shift_legacy)
      v1 == [v EXCEPT ![15] = BitAnd(source, 128) \div 128]
  IN  [v1 EXCEPT ![x] = BitAnd(source * 2, 255)]

\* 7xnn that sets VF to the carry, as 8xy4 does.
ExecAddImmCarry(s, x, nn) ==
  LET s1 == [s EXCEPT !.V[x] = BitAnd(s.V[x] + nn, 255)]
  IN  [s1 EXCEPT !.V[15] = IF s.V[x] + nn > 255 THEN 1 ELSE 0]

\* 7xnn.
ExecAddImm(s, x, nn) == [s EXCEPT !.V[x] = BitAnd(s.V[x] + nn, 255)]

\* The 8xyn group.
ExecAlu(s, x, y, n) ==
  CASE n = 0 -> [s EXCEPT !.V[x] = s.V[y]]
    [] n = 1 -> [s EXCEPT !.V[x] = BitOr(s.V[x], s.V[y])]
    [] n = 2 -> [s EXCEPT !.V[x] = BitAnd(s.V[x], s.V[y])]
    [] n = 3 -> [s EXCEPT !.V[x] = BitXor(s.V[x], s.V[y])]
    [] n = 4 -> [s EXCEPT !.V = ExecAdd(s.V, x, y)]
    [] n = 5 -> [s EXCEPT !.V = ExecSub(s.V, x, y)]
    [] n = 6 -> [s EXCEPT !.V = ExecShr(s.V, x, y, s.config.quirks.shift_legacy)]
    [] n = 7 -> [s EXCEPT !.V = ExecSubN(s.V, x, y)]
    [] n = 14 -> [s EXCEPT !.V = ExecShl(s.V, x, y, s.config.quirks.shift_legacy)]
    [] OTHER -> s

\* Dxyn with a bounds check that refuses a sprite ending at the last byte.
ExecDrawOffByOne(s, x, y, n) ==
  LET x_pos == s.V[x]
      y_pos == s.V[y]
  IN  IF s.I + n >= MEMORY_SIZE
      THEN Raise([s EXCEPT !.halted = TRUE],
                 "RuntimeError: Sprite fetch out of memory bounds")
      ELSE LET sprite == [i \in 1..n |-> Peek(s.memory, s.I + i - 1)]
               wrap == s.config.quirks.draw_wrap
               collision == DrawCollision(s.pixels, x_pos, y_pos, sprite, n, wrap)
           IN  [s EXCEPT !.pixels = DrawPixels(@, x_pos, y_pos, sprite, n, wrap),
                         !.draw_flag = TRUE,
                         !.V[15] = IF collision THEN 1 ELSE 0]

\* Dxyn.
ExecDraw(s, x, y, n) ==
  LET x_pos == s.V[x]
      y_pos == s.V[y]
  IN  IF s.I + n > MEMORY_SIZE
      THEN Raise([s EXCEPT !.halted = TRUE],
                 "RuntimeError: Sprite fetch out of memory bounds")
      ELSE LET sprite == [i \in 1..n |-> Peek(s.memory, s.I + i - 1)]
               wrap == s.config.quirks.draw_wrap
               collision == DrawCollision(s.pixels, x_pos, y_pos, sprite, n, wrap)
           IN  [s EXCEPT !.pixels = DrawPixels(@, x_pos, y_pos, sprite, n, wrap),
                         !.draw_flag = TRUE,
                         !.V[15] = IF collision THEN 1 ELSE 0]

\* Bnnn that honours the jump quirk: with the flag set the register is the one
\* the top nibble of nnn names.
ExecJumpQuirk(s, nnn) ==
  IF s.config.quirks.jump_with_v0_quirk
  THEN [s EXCEPT !.pc = nnn + s.V[nnn \div 256]]
  ELSE [s EXCEPT !.pc = nnn + s.V[0]]

\* Bnnn.
ExecJump(s, nnn) == [s EXCEPT !.pc = nnn + s.V[0]]

\* Exnn that skips on an nn it does not know.
ExecKeyUnknownSkips(s, x, nn) ==
  IF nn = 158 \/ nn = 161
  THEN IF s.V[x] >= 16 THEN Raise(s, "IndexError")
       ELSE IF (nn = 158) = s.keys[s.V[x]] THEN [s EXCEPT !.pc = @ + 2] ELSE s
  ELSE [s EXCEPT !.pc = @ + 2]

\* Ex9E and ExA1.  keys is a list of 16: a larger index raises IndexError.
ExecKey(s, x, nn) ==
  IF nn = 158 \/ nn = 161
  THEN IF s.V[x] >= 16 THEN Raise(s, "IndexError")
       ELSE IF (nn = 158) = s.keys[s.V[x]] THEN [s EXCEPT !.pc = @ + 2] ELSE s
  ELSE s

\* Fx33: three stores in a row; one past the end of memory raises IndexError
\* after the ones before it were made.
ExecBcd(s, x) ==
  LET val == s.V[x]
      digit == << val \div 100, (val \div 10) % 10, val % 10 >>
      done == { i \in 0..2 : s.I + i < MEMORY_SIZE }
      s1 == [s EXCEPT !.memory =
               Poke(@, { s.I + i : i \in done }, LAMBDA a : digit[a - s.I + 1])]
  IN  IF done = 0..2 THEN s1 ELSE Raise(s1, "IndexError")

\* Fx55 that stores V0 up to Vx but not Vx itself.
ExecStoreExclusive(s, x) ==
  LET done == { i \in 0..(x - 1) : s.I + i < MEMORY_SIZE }
      s1 == [s EXCEPT !.memory =
               Poke(@, { s.I + i : i \in done }, LAMBDA a : s.V[a - s.I])]
  IN  IF done # 0..(x - 1) THEN Raise(s1, "IndexError")
      ELSE IF s.config.quirks.load_store_increment_i
      THEN [s1 EXCEPT !.I = @ + x + 1] ELSE s1

\* Fx55: the stores up to the first one past the end of memory are made.
ExecStore(s, x) ==
  LET done == { i \in 0..x : s.I + i < MEMORY_SIZE }
      s1 == [s EXCEPT !.memory =
               Poke(@, { s.I + i : i \in done }, LAMBDA a : s.V[a - s.I])]
  IN  IF done # 0..x THEN Raise(s1, "IndexError")
      ELSE IF s.config.quirks.load_store_increment_i
      THEN [s1 EXCEPT !.I = @ + x + 1] ELSE s1

\* Fx65: the loads up to the first one past the end of memory are made.
ExecLoad(s, x) ==
  LET done == { i \in 0..x : s.I + i < MEMORY_SIZE }
      s1 == [s EXCEPT !.V =
               [i \in DOMAIN @ |-> IF i \in done THEN Peek(s.memory, s.I + i)
                                   ELSE @[i]]]
  IN  IF done # 0..x THEN Raise(s1, "IndexError")
      ELSE IF s.config.quirks.load_store_increment_i
      THEN [s1 EXCEPT !.I = @ + x + 1] ELSE s1

\* The Fxnn group; waited is what arrives during the wait of Fx0A.
ExecMisc(s, x, nn, waited) ==
  CASE nn = 7 -> [s EXCEPT !.V[x] = s.delay_timer]
    [] nn = 10 -> LET w == wait_for_key(s, waited)
                  IN  IF w.s.exc # "none" THEN w.s
                      ELSE [w.s EXCEPT !.V[x] = w.r]
    [] nn = 21 -> [s EXCEPT !.delay_timer = s.V[x]]
    [] nn = 24 -> set_timer(s, s.V[x])
    [] nn = 30 -> [s EXCEPT !.I = @ + s.V[x]]
    [] nn = 41 -> [s EXCEPT !.I = s.V[x] * 5]
    [] nn = 51 -> ExecBcd(s, x)
    [] nn = 85 -> ExecStore(s, x)
    [] nn = 101 -> ExecLoad(s, x)
    [] OTHER -> s

\* decode_and_execute; rnd is the byte the random generator returns, waited
\* what arrives during a wait for a key.
decode_and_execute(s, opc, rnd, waited) ==
  LET nnn == Nnn(opc)
      nn == Nn(opc)
      n == N(opc)
      x == X(opc)
      y == Y(opc)
      op == Op(opc)
  IN  CASE op = 0 -> IF opc = 224 THEN clear(s)
                     ELSE IF opc = 238 THEN ExecRet(s)
                     ELSE s
        [] op = 1 -> [s EXCEPT !.pc = nnn]
        [] op = 2 -> ExecCall(s, nnn)
        [] op = 3 -> IF s.V[x] = nn THEN [s EXCEPT !.pc = @ + 2] ELSE s
        [] op = 4 -> IF s.V[x] # nn THEN [s EXCEPT !.pc = @ + 2] ELSE s
        [] op = 5 -> IF n = 0 /\ s.V[x] = s.V[y]
                     THEN [s EXCEPT !.pc = @ + 2] ELSE s
        [] op = 6 -> [s EXCEPT !.V[x] = nn]
        [] op = 7 -> ExecAddImm(s, x, nn)
        [] op = 8 -> ExecAlu(s, x, y, n)
        [] op = 9 -> IF n = 0 /\ s.V[x] # s.V[y]
                     THEN [s EXCEPT !.pc = @ + 2] ELSE s
        [] op = 10 -> [s EXCEPT !.I = nnn]
        [] op = 11 -> ExecJump(s, nnn)
        [] op = 12 -> [s EXCEPT !.V[x] = BitAnd(rnd, nn)]
        [] op = 13 -> ExecDraw(s, x, y, n)
        [] op = 14 -> ExecKey(s, x, nn)
        [] op = 15 -> ExecMisc(s, x, nn, waited)

\* update_timers that forgets the sound timer.
update_timersWithoutSound(s) ==
  IF s.delay_timer > 0 THEN [s EXCEPT !.delay_timer = @ - 1] ELSE s

\* update_timers that counts the delay timer down to 1 only.
update_timersStopsAtOne(s) ==
  Sound_update(IF s.delay_timer > 1 THEN [s EXCEPT !.delay_timer = @ - 1] ELSE s)

\* update_timers.
update_timers(s) ==
  Sound_update(IF s.delay_timer > 0 THEN [s EXCEPT !.delay_timer = @ - 1] ELSE s)

\* step; chars is what waits on stdin when the keys are polled.
step(s, chars, rnd, waited) ==
  IF s.halted THEN s
  ELSE LET s1 == update_keys(s, chars)
       IN  IF s1.exc # "none" THEN s1
           ELSE LET f == fetch_opcode(s1)
                IN  IF f.s.exc # "none" THEN f.s
                    ELSE decode_and_execute([f.s EXCEPT !.opcode = f.r],
                                            f.r, rnd, waited)

\* load_rom of a file of the bytes rom.
load_rom(s, rom) ==
  LET max_len == MEMORY_SIZE - ROM_BASE
  IN  IF Len(rom) > max_len THEN Raise(s, "ValueError: ROM too large")
      ELSE [s EXCEPT !.memory =
                       Poke(@, { ROM_BASE + i : i \in 0..(Len(rom) - 1) },
                            LAMBDA a : rom[a - ROM_BASE + 1]),
                     !.pc = ROM_BASE, !.halted = FALSE, !.rom_loaded = TRUE]

\* int.from_bytes(b, 'big'): 0 for no bytes, as a read at the end of a file
\* returns.
RECURSIVE from_bytes(_)
from_bytes(b) ==
  IF b = << >> THEN 0
  ELSE from_bytes(SubSeq(b, 1, Len(b) - 1)) * 256 + b[Len(b)]

\* int.to_bytes(length, 'big'): the bytes, high byte first, or OverflowError
\* (ok false) for an int that does not fit in them.
to_bytes(v, length) ==
  IF v < 0 \/ v >= 256 ^ length THEN [ok |-> FALSE, bytes |-> << >>]
  ELSE [ok |-> TRUE,
        bytes |-> [i \in 1..length |-> (v \div (256 ^ (length - i))) % 256]]

\* save_state: the file written in field r, the engine in field s. The arrays
\* are written as they are; PC and I as two bytes each; the stack pointer and
\* the two timers, which are at most 255, as one byte each. A to_bytes that
\* raises leaves the file with what was written before it.
save_state(s) ==
  LET pcb == to_bytes(s.pc, 2)
      Ib == to_bytes(s.I, 2)
      head == [ memory |-> s.memory, V |-> s.V, stack |-> s.stack,
                pc |-> pcb.bytes, I |-> << >>, sp |-> 0, delay_timer |-> 0,
                timer |-> << >> ]
  IN  IF ~pcb.ok \/ ~Ib.ok
      THEN [r |-> head, s |-> Raise(s, "OverflowError")]
      ELSE [r |-> [head EXCEPT !.I = Ib.bytes, !.sp = s.sp,
                               !.delay_timer = s.delay_timer,
                               !.timer = << s.timer >>],
            s |-> s]

\* load_state that also clears halted, as load_rom does.
load_stateUnhalts(s, f) ==
  LET s1 == [s EXCEPT !.memory = f.memory, !.V = f.V, !.stack = f.stack,
                      !.pc = from_bytes(f.pc),
                      !.I = from_bytes(f.I),
                      !.sp = f.sp, !.delay_timer = f.delay_timer,
                      !.halted = FALSE]
  IN  IF f.timer # << >> THEN set_timer(s1, f.timer[1]) ELSE s1

\* load_state of a snapshot file f: its memory, registers and stack bytes as
\* the arrays they are read into, PC and I as two bytes each, high byte first,
\* the stack pointer and the delay timer as one byte each, and the sound
\* timer's byte when the file has one.
load_state(s, f) ==
  LET s1 == [s EXCEPT !.memory = f.memory, !.V = f.V, !.stack = f.stack,
                      !.pc = from_bytes(f.pc),
                      !.I = from_bytes(f.I),
                      !.sp = f.sp, !.delay_timer = f.delay_timer]
  IN  IF f.timer # << >> THEN set_timer(s1, f.timer[1]) ELSE s1

\* reset that also releases the keys.
resetReleasesKeys(s) ==
  LET s1 == set_timer([s EXCEPT !.V = [i \in 0..(V_COUNT - 1) |-> 0], !.sp = 0,
                                !.pc = ROM_BASE, !.I = 0, !.delay_timer = 0], 0)
  IN  [s1 EXCEPT !.halted = FALSE, !.keys = [k \in 0..15 |-> FALSE]]

\* reset.
reset(s) ==
  LET s1 == set_timer([s EXCEPT !.V = [i \in 0..(V_COUNT - 1) |-> 0], !.sp = 0,
                                !.pc = ROM_BASE, !.I = 0, !.delay_timer = 0], 0)
  IN  [s1 EXCEPT !.halted = FALSE]

\* ----------------------------------------------------------------- programs
\* The bytes of a program given as its 16-bit instructions, high byte first.
RECURSIVE RomBytes(_)
RomBytes(words) ==
  IF words = << >> THEN << >>
  ELSE << Head(words) \div 256, Head(words) % 256 >> \o RomBytes(Tail(words))

\* 2200: a call of itself, over and over.
RomCallSelf == << \h2200 >>
\* A return with nothing to return to (and a loop back to it).
RomRet == << \h00EE, \h1200 >>
\* A call of a subroutine that returns, in a loop.
RomCallRet == << \h2204, \h1200, \h00EE, \h1204 >>
\* The delay timer set to 10 and the sound timer to 3, then the display
\* cleared forever.
RomTimers == << \h6A0A, \hFA15, \h6A03, \hFA18, \h00E0, \h1208 >>
\* A sound of 2 ticks started, then a return with nothing to return to.
RomSoundHalt == << \h6A02, \hFA18, \h00EE, \h1204 >>
\* A jump to the last instruction of memory, after which PC leaves it.
RomRunOff == << \h1FFE >>
\* A jump to 0xFFE + V0 with V0 = 1: the last byte of memory.
RomJumpOut == << \h6001, \hBFFE >>
\* V0, V1 stored at 0xFFE..0xFFF and loaded back, then the three digits of V0
\* stored at 0xFFE..0x1000, then a loop.
RomStoreEnd == << \h6007, \h6109, \hAFFE, \hF155, \hF165, \hF033, \h120C >>
\* I = 0xFFF + 3, then V0, V1 stored at I, then a loop.
RomStorePast == << \hAFFF, \h6003, \hF01E, \hF155, \h1208 >>
\* The bound of the display's own model: draw_sprite calls between two clears.
MaxDraws == 3

\* I grows by 255 in every pass of a loop.
RomGrowI == << \hAFFF, \h60FF, \hF01E, \h1204 >>

\* The glyph 0 drawn twice at (62, 30), across the right and bottom edges, then
\* a sprite of the last 4 bytes of memory, then one of 5 bytes from 0xFFC.
RomDraw ==
  << \h603E, \h611E, \hA000, \hD015, \hD015, \hAFFC, \hD014, \hD015 >>

Roms ==
  { RomBytes(w) : w \in { RomCallSelf, RomRet, RomCallRet, RomTimers,
                          RomSoundHalt, RomRunOff, RomJumpOut, RomStoreEnd,
                          RomStorePast, RomDraw } }

\* The memory of a freshly constructed engine (load_fontset) with a program.
FontMemory ==
  Poke(<< >>, { i - 1 : i \in DOMAIN FONTSET }, LAMBDA a : FONTSET[a + 1])

ProgramMemory(words) ==
  Poke(FontMemory, { ROM_BASE + i : i \in 0..(2 * Len(words) - 1) },
       LAMBDA a : RomBytes(words)[a - ROM_BASE + 1])

\* Snapshot files.  The first was saved inside the subroutine of a program;
\* the second is a file whose stack pointer byte is past the stack, with a
\* program that returns and loops, and without the sound timer's byte.
SnapshotFiles ==
  { [ memory |-> ProgramMemory(<< \h2204, \h1200, \h00EE, \h1204 >>),
      V |-> [i \in 0..(V_COUNT - 1) |-> IF i = 0 THEN 9 ELSE 0],
      stack |-> [i \in 0..(STACK_SIZE - 1) |-> IF i = 0 THEN \h202 ELSE 0],
      pc |-> << \h02, \h04 >>, I |-> << \h0F, \hFF >>, sp |-> 1,
      delay_timer |-> 2, timer |-> << 1 >> ],
    [ memory |-> ProgramMemory(<< \h00EE, \h1200 >>),
      V |-> [i \in 0..(V_COUNT - 1) |-> 0],
      stack |-> [i \in 0..(STACK_SIZE - 1) |-> \h202],
      pc |-> << \h02, \h00 >>, I |-> << \hFF, \hFF >>, sp |-> 18,
      delay_timer |-> 0, timer |-> << >> ] }

\* ---------------------------------------------------------------- the host
\* The host is main.py's: it constructs the engine, loads its ROM file, and
\* only then runs it (a load error ends the program before any instruction).
\* What the environment can hand the engine.
TtyInputs == { << >>, << "x" >>, << ESC >> }
RandBytes == { 0, 255 }
WaitKeys == { << "x" >>, << ESC >>, << "p", "x" >> }
EventBatches ==
  { << >>, << [type |-> "KEYDOWN", key |-> "x"] >>,
    << [type |-> "KEYUP", key |-> "x"] >>, << [type |-> "QUIT", key |-> ""] >> }
WaitEvents ==
  { << [type |-> "KEYDOWN", key |-> "x"] >>,
    << [type |-> "QUIT", key |-> ""] >>,
    << [type |-> "KEYUP", key |-> "x"], [type |-> "KEYDOWN", key |-> "1"] >> }

DefaultQuirks ==
  [ shift_legacy |-> FALSE, load_store_increment_i |-> FALSE,
    draw_wrap |-> FALSE, jump_with_v0_quirk |-> FALSE ]

AllQuirks ==
  [ shift_legacy |-> TRUE, load_store_increment_i |-> TRUE,
    draw_wrap |-> TRUE, jump_with_v0_quirk |-> TRUE ]

\* The configurations an engine is constructed with: the display and input
\* backend (pygame, or the terminal fallback, whose stdin may be no terminal),
\* the sound enabled as by default.
Configs ==
  { [ cycles_per_frame |-> c, backend |-> b[1], isatty |-> b[2], quirks |-> q,
      sound_enabled |-> TRUE ] :
      c \in 1..MaxCycles,
      b \in { << "pygame", TRUE >>, << "terminal", TRUE >>, << "terminal", FALSE >> },
      q \in { DefaultQuirks, AllQuirks } }

\* The record of the window's key events: the events evs were taken from the
\* event queue.
NoEvents == [k \in 0..15 |-> "NONE"]

RECURSIVE Produced(_, _)
Produced(w, evs) ==
  IF evs = << >> THEN w
  ELSE LET ev == Head(evs)
       IN  IF ev.type \in { "KEYDOWN", "KEYUP" } /\ ev.key \in DOMAIN KEYMAP
           THEN Produced([w EXCEPT ![KEYMAP[ev.key]] = ev.type], Tail(evs))
           ELSE Produced(w, Tail(evs))

\* The step that left the engine as s executed Fx0A with the pygame input
\* handler, which took the events waited from the queue; or it did not.
NotesWait(s, waited) ==
  IF /\ s.config.backend = "pygame" /\ s.opcode # -1
     /\ Op(s.opcode) = 15 /\ Nn(s.opcode) = 10
  THEN window' = Produced(window, waited)
  ELSE UNCHANGED window

\* Chip8.__init__.
Constructed(cfg) ==
  /\ memory = FontMemory
  /\ V = [i \in 0..(V_COUNT - 1) |-> 0]
  /\ stack = [i \in 0..(STACK_SIZE - 1) |-> 0]
  /\ sp = 0 /\ pc = ROM_BASE /\ I = 0 /\ delay_timer = 0
  /\ halted = FALSE /\ rom_loaded = FALSE
  /\ timer = 0 /\ playing = FALSE /\ bell = FALSE
  /\ pixels = {} /\ draw_flag = FALSE /\ screen = << >> /\ redrawn = FALSE
  /\ keys = [k \in 0..15 |-> FALSE]
  /\ config = cfg

Init ==
  /\ \E cfg \in Configs : Constructed(cfg)
  /\ phase = "idle" /\ left = 0 /\ trace = << >>
  /\ opcode = -1 /\ exc = "none" /\ event = "init"
  /\ rom_file \in Roms /\ snapshot = << >> /\ call = NoCall
  /\ window = NoEvents
  /\ now = StartTime /\ next_frame = StartTime
  /\ dt_set = 0 /\ frames_since = 0

\* The opcode the next fetch returns (-1 when the fetch is out of bounds).
NextOpcode ==
  IF pc + 1 < MEMORY_SIZE THEN Peek(memory, pc) * 256 + Peek(memory, pc + 1)
  ELSE -1

\* The inputs a step can depend on: stdin for the terminal backend, the random
\* byte for Cxnn, what arrives during the wait of Fx0A.
StepChars ==
  IF config.backend = "terminal" /\ config.isatty THEN TtyInputs ELSE { << >> }
StepRand == IF NextOpcode \div 4096 = 12 THEN RandBytes ELSE { 0 }
StepKeys ==
  IF NextOpcode \div 4096 = 15 /\ NextOpcode % 256 = 10
  THEN IF config.backend = "pygame" THEN WaitEvents ELSE WaitKeys
  ELSE { << >> }

\* Fx1E is the one instruction that lets I grow without a bound.
WithinBounds ==
  ~(NextOpcode \div 4096 = 15 /\ NextOpcode % 256 = 30 /\ I > MaxI)

\* The record of the delay timer's last write: the step that left the engine
\* as s executed Fx15, or did not.
NotesStep(s) ==
  IF s.opcode # -1 /\ s.exc = "none" /\ Op(s.opcode) = 15 /\ Nn(s.opcode) = 21
  THEN dt_set' = s.delay_timer /\ frames_since' = 0
  ELSE UNCHANGED << dt_set, frames_since >>

\* A run_frame call returned.
NotesFrame ==
  /\ frames_since' = IF frames_since < dt_set THEN frames_since + 1 ELSE frames_since
  /\ UNCHANGED dt_set

\* The host calls load_rom on its ROM file.
LoadRom ==
  /\ phase = "idle"
  /\ Becomes(load_rom(Engine, rom_file))
  /\ event' = "load_rom" /\ trace' = << >>
  /\ UNCHANGED << phase, left, rom_file, now, next_frame, window, snapshot,
                  call, dt_set, frames_since >>

\* The host calls step.
HostStep ==
  /\ phase = "idle" /\ rom_loaded /\ WithinBounds
  /\ \E chars \in StepChars, rnd \in StepRand, key \in StepKeys :
       LET s == step(Engine, chars, rnd, key)
       IN  Becomes(s) /\ NotesStep(s) /\ NotesWait(s, key)
  /\ event' = "step" /\ trace' = << >>
  /\ UNCHANGED << phase, left, rom_file, now, next_frame, snapshot, call >>

\* The host calls reset.
Reset ==
  /\ phase = "idle" /\ rom_loaded
  /\ Becomes(reset(Engine))
  /\ event' = "reset" /\ trace' = << >>
  /\ dt_set' = 0 /\ frames_since' = 0
  /\ UNCHANGED << phase, left, rom_file, now, next_frame, window, snapshot,
                  call >>

\* The host calls load_state on a snapshot file.
LoadState ==
  /\ phase = "idle" /\ rom_loaded
  /\ \E f \in SnapshotFiles :
       Becomes(load_state(Engine, f)) /\ dt_set' = f.delay_timer
  /\ event' = "load_state" /\ trace' = << >> /\ frames_since' = 0
  /\ UNCHANGED << phase, left, rom_file, now, next_frame, window, snapshot,
                  call >>

\* run_frame on a halted engine: the timers, a present, and out.
RunFrameHalted ==
  /\ phase = "idle" /\ rom_loaded /\ halted
  /\ Becomes(render(update_timers(Engine)))
  /\ trace' = << "tick", "present" >> /\ event' = "run_frame_halted"
  /\ NotesFrame
  /\ UNCHANGED << phase, left, rom_file, now, next_frame, window, snapshot,
                  call >>

\* display.poll_events and the routing of its events to the input handler: a
\* QUIT among the events raises before any of them is handled.
RECURSIVE HandleEvents(_, _)
HandleEvents(s, evs) ==
  IF evs = << >> THEN s ELSE HandleEvents(handle_event(s, Head(evs)), Tail(evs))

PollEvents(s, evs) ==
  IF \E i \in DOMAIN evs : evs[i].type = "QUIT"
  THEN Raise(s, "KeyboardInterrupt")
  ELSE HandleEvents(s, evs)

\* run_frame on a running engine, up to its loop: with the pygame backend the
\* window's events are drained.
RunFrameBegin ==
  /\ phase = "idle" /\ rom_loaded /\ ~halted
  /\ IF config.backend = "pygame"
     THEN \E evs \in EventBatches :
            LET s == PollEvents(Engine, evs)
            IN  /\ Becomes(s)
                /\ window' = Produced(window, evs)
                /\ trace' = << "poll" >>
                /\ phase' = IF s.exc = "none" THEN "frame" ELSE "idle"
                /\ left' = IF s.exc = "none" THEN config.cycles_per_frame ELSE 0
     ELSE /\ Becomes(Engine)
          /\ UNCHANGED window
          /\ trace' = << >>
          /\ phase' = "frame"
          /\ left' = config.cycles_per_frame
  /\ event' = "run_frame_begin"
  /\ UNCHANGED << rom_file, now, next_frame, snapshot, call, dt_set,
                  frames_since >>

\* One iteration of run_frame's loop: an exception of step leaves run_frame.
FrameStep ==
  /\ phase = "frame" /\ left > 0 /\ ~halted /\ WithinBounds
  /\ \E chars \in StepChars, rnd \in StepRand, key \in StepKeys :
       LET s == step(Engine, chars, rnd, key)
       IN  /\ Becomes(s) /\ NotesStep(s) /\ NotesWait(s, key)
           /\ phase' = IF s.exc = "none" THEN "frame" ELSE "idle"
           /\ left' = IF s.exc = "none" THEN left - 1 ELSE 0
  /\ trace' = Append(trace, "step") /\ event' = "frame_step"
  /\ UNCHANGED << rom_file, now, next_frame, snapshot, call >>

\* The end of run_frame: the loop is over (or broke on halted), the timers are
\* ticked and the display is asked to present.
FrameEnd ==
  /\ phase = "frame" /\ (left = 0 \/ halted)
  /\ Becomes(render(update_timers(Engine)))
  /\ trace' = trace \o << "tick", "present" >>
  /\ phase' = "idle" /\ left' = 0 /\ event' = "run_frame"
  /\ NotesFrame
  /\ UNCHANGED << rom_file, now, next_frame, window, snapshot, call >>

Next ==
  \/ LoadRom
  \/ HostStep
  \/ Reset
  \/ RunFrameHalted
  \/ RunFrameBegin
  \/ FrameStep
  \/ FrameEnd

Spec == Init /\ [][Next]_vars

\* The host that also loads snapshot files, on two of the programs.
InitSnap ==
  /\ Init
  /\ rom_file \in { RomBytes(RomRet), RomBytes(RomCallSelf) }
  /\ config.quirks = DefaultQuirks
  /\ config.isatty

NextSnap ==
  \/ Next
  \/ LoadState

SpecSnap == InitSnap /\ [][NextSnap]_vars

\* ------------------------------------------------------ arithmetic programs
\* Programs that load two registers and VF and execute one instruction of the
\* 8xyn group on them: 6x a, 6y b, 6F c, 8xyn.
AluRegs == { 0, 1, 15 }
AluVals == { 0, 1, 3, 128, 255 }
AluOps == { 4, 5, 7 }

AluProgram(x, y, a, b, c, n) ==
  << \h6000 + 256 * x + a, \h6000 + 256 * y + b, \h6F00 + c,
     \h8000 + 256 * x + 16 * y + n >>

AluRoms ==
  { RomBytes(AluProgram(x, y, a, b, c, n)) :
      x \in AluRegs, y \in AluRegs, a \in AluVals, b \in AluVals,
      c \in { 0, 3 }, n \in AluOps }

\* The engine constructed and an arithmetic program loaded, as main.py does
\* before its loop.
InitAlu ==
  /\ \E cfg \in Configs :
       /\ cfg.cycles_per_frame = 1 /\ cfg.backend = "pygame"
       /\ Constructed(cfg)
  /\ phase = "idle" /\ left = 0 /\ trace = << >>
  /\ opcode = -1 /\ exc = "none" /\ event = "init"
  /\ rom_file \in AluRoms /\ snapshot = << >> /\ call = NoCall
  /\ window = NoEvents
  /\ now = StartTime /\ next_frame = StartTime
  /\ dt_set = 0 /\ frames_since = 0

\* The program is loaded, then executed step by step to its last instruction.
NextAlu ==
  \/ /\ ~rom_loaded
     /\ LoadRom
  \/ /\ pc < ROM_BASE + Len(rom_file)
     /\ HostStep

SpecAlu == InitAlu /\ [][NextAlu]_vars

\* Programs that load two registers and VF and shift: 6x a, 6y b, 6F c, then
\* 8xy6 or 8xyE, run with the shift quirk off and on.
ShiftOps == { 6, 14 }

ShiftRoms ==
  { RomBytes(AluProgram(x, y, a, b, c, n)) :
      x \in AluRegs, y \in AluRegs, a \in AluVals, b \in AluVals,
      c \in { 0, 3 }, n \in ShiftOps }

InitShift ==
  /\ \E cfg \in Configs :
       /\ cfg.cycles_per_frame = 1 /\ cfg.backend = "pygame"
       /\ Constructed(cfg)
  /\ phase = "idle" /\ left = 0 /\ trace = << >>
  /\ opcode = -1 /\ exc = "none" /\ event = "init"
  /\ rom_file \in ShiftRoms /\ snapshot = << >> /\ call = NoCall
  /\ window = NoEvents
  /\ now = StartTime /\ next_frame = StartTime
  /\ dt_set = 0 /\ frames_since = 0

SpecShift == InitShift /\ [][NextAlu]_vars

\* ---------------------------------------------------- one-instruction programs
\* 6F c, 6x a, 7x b, 7x 02: among them 6x00 7xFF 7x02.
AddImmRoms ==
  { RomBytes(<< \h6F00 + c, \h6000 + 256 * x + a, \h7000 + 256 * x + b,
                \h7002 + 256 * x >>) :
      x \in AluRegs, a \in { 0, 200 }, b \in { 0, 1, 255 }, c \in { 0, 3 } }

\* Opcodes no branch of decode_and_execute recognizes, one of each class.
UnknownOpcodes ==
  { \h0123, \h00E1, \h5011, \h9011, \h8018, \h801F, \hE0A2, \hE09F,
    \hF0FF, \hF034, \hF000 }

\* V0 = a (V1 is 0), both timers set to it, I set, then an unrecognized
\* opcode, twice.
UnknownRoms ==
  { RomBytes(<< \h6000 + a, \hF015, \hF018, \hA123, u, u >>) :
      a \in { 0, 3 }, u \in UnknownOpcodes }

\* V0..V2 and VF loaded, stored by Fx55 at 0x300 and loaded by Fx65, at once
\* or after the registers were overwritten.
StoreRoms ==
  { RomBytes(<< \h6007, \h6109, \h6205, \h6F03, \hA300,
                \hF055 + 256 * x >> \o mid \o << \hF065 + 256 * x >>) :
      x \in { 0, 2, 15 },
      mid \in { << >>, << \h6000, \h6100, \h6200, \h6F00 >> } }

\* Vx = v, then Fx29.
GlyphRoms ==
  { RomBytes(<< \h6000 + 256 * x + v, \hF029 + 256 * x >>) :
      x \in { 0, 1 }, v \in { 0, 9, 15, 16, 17, 255 } }

InstrRoms == AddImmRoms \cup UnknownRoms \cup StoreRoms \cup GlyphRoms

InitInstr ==
  /\ \E cfg \in Configs :
       /\ cfg.cycles_per_frame = 1 /\ cfg.backend = "pygame"
       /\ Constructed(cfg)
  /\ phase = "idle" /\ left = 0 /\ trace = << >>
  /\ opcode = -1 /\ exc = "none" /\ event = "init"
  /\ rom_file \in InstrRoms /\ snapshot = << >> /\ call = NoCall
  /\ window = NoEvents
  /\ now = StartTime /\ next_frame = StartTime
  /\ dt_set = 0 /\ frames_since = 0

SpecInstr == InitInstr /\ [][NextAlu]_vars

\* The instructions that write I: the loop that adds 255 to it over and over,
\* the glyph and the store programs.
InitIndex ==
  /\ \E cfg \in Configs :
       /\ cfg.cycles_per_frame = 1 /\ cfg.backend = "pygame"
       /\ Constructed(cfg)
  /\ phase = "idle" /\ left = 0 /\ trace = << >>
  /\ opcode = -1 /\ exc = "none" /\ event = "init"
  /\ rom_file \in { RomBytes(RomGrowI) } \cup GlyphRoms \cup StoreRoms
  /\ snapshot = << >> /\ call = NoCall
  /\ window = NoEvents
  /\ now = StartTime /\ next_frame = StartTime
  /\ dt_set = 0 /\ frames_since = 0

SpecIndex == InitIndex /\ [][NextAlu]_vars

\* ------------------------------------------------------------ the keypad
\* V0 = v, then Ex9E and ExA1 on it, a wait for a key into V0, and the same
\* again on the key that ended the wait.
KeyRoms ==
  { RomBytes(<< \h6000 + v, \hE09E, \hE0A1, \hF00A, \h1202 >>) :
      v \in { 0, 15, 16, 255 } }

InitKeys ==
  /\ \E cfg \in Configs : cfg.quirks = DefaultQuirks /\ Constructed(cfg)
  /\ phase = "idle" /\ left = 0 /\ trace = << >>
  /\ opcode = -1 /\ exc = "none" /\ event = "init"
  /\ rom_file \in KeyRoms /\ snapshot = << >> /\ call = NoCall
  /\ window = NoEvents
  /\ now = StartTime /\ next_frame = StartTime
  /\ dt_set = 0 /\ frames_since = 0

\* The host's calls on an engine that no fault halts.
NextKeys ==
  \/ LoadRom
  \/ HostStep
  \/ Reset
  \/ RunFrameBegin
  \/ FrameStep
  \/ FrameEnd

SpecKeys == InitKeys /\ [][NextKeys]_vars

\* -------------------------------------------------------------- the jump
\* V0 = a and V2 = b, then B206: a jump to one of the three jumps back that
\* follow it.
JumpRoms ==
  { RomBytes(<< \h6000 + a, \h6200 + b, \hB206, \h1200, \h1200, \h1200 >>) :
      a \in { 0, 2, 4 }, b \in { 0, 4 } }

\* The engine with the jump quirk flag of its configuration inverted.
Flip(s) == [s EXCEPT !.config.quirks.jump_with_v0_quirk = ~@]

\* Engines that differ in the jump quirk flag only, on the jump programs and
\* on the program that jumps out of memory.
InitJump ==
  /\ \E cfg \in Configs, flag \in BOOLEAN :
       /\ cfg.quirks = DefaultQuirks /\ cfg.isatty
       /\ Constructed([cfg EXCEPT !.quirks.jump_with_v0_quirk = flag])
  /\ phase = "idle" /\ left = 0 /\ trace = << >>
  /\ opcode = -1 /\ exc = "none" /\ event = "init"
  /\ rom_file \in JumpRoms \cup { RomBytes(RomJumpOut) }
  /\ snapshot = << >> /\ call = NoCall
  /\ window = NoEvents
  /\ now = StartTime /\ next_frame = StartTime
  /\ dt_set = 0 /\ frames_since = 0

SpecJump == InitJump /\ [][Next]_vars

\* --------------------------------------------------------------- main.py
\* Sound.stop.
Sound_stop(s) == [s EXCEPT !.timer = 0, !.playing = FALSE]

\* What the statements of main outside run_frame leave alone: the engine.
EngineVars ==
  << memory, V, stack, sp, pc, I, delay_timer, halted, rom_loaded, timer,
     playing, bell, pixels, draw_flag, screen, redrawn, keys, config, opcode,
     exc >>

\* main constructs the engine with the default configuration.
InitMain == Init /\ config.quirks = DefaultQuirks

\* The loop of main is over.
MainEnded == event \in { "main_stopped", "main_crash" }

\* main's loop calls run_frame when the frame is due, as long as no call
\* raised.
MainRunFrame ==
  /\ rom_loaded /\ exc = "none" /\ ~MainEnded
  /\ IF halted THEN RunFrameHalted ELSE RunFrameBegin

\* except KeyboardInterrupt: the sound is stopped and main returns 0.
MainStopped ==
  /\ phase = "idle" /\ exc = "KeyboardInterrupt" /\ ~MainEnded
  /\ Becomes(Sound_stop(Engine))
  /\ event' = "main_stopped"
  /\ UNCHANGED << phase, left, trace, rom_file, now, next_frame, window,
                  snapshot, call, dt_set, frames_since >>

\* Any other exception of run_frame passes through main's try statement and
\* ends the process.
MainCrash ==
  /\ phase = "idle" /\ exc \notin { "none", "KeyboardInterrupt" } /\ ~MainEnded
  /\ event' = "main_crash"
  /\ UNCHANGED EngineVars
  /\ UNCHANGED << phase, left, trace, rom_file, now, next_frame, window,
                  snapshot, call, dt_set, frames_since >>

NextMain ==
  \/ /\ ~rom_loaded
     /\ LoadRom
  \/ MainRunFrame
  \/ FrameStep
  \/ FrameEnd
  \/ MainStopped
  \/ MainCrash

SpecMain == InitMain /\ [][NextMain]_vars

\* main on a program that starts a sound of 3 ticks and then waits for a key,
\* again and again.
RomWaitKey == << \h6A03, \hFA18, \hF00A, \h1204 >>

InitQuit ==
  /\ \E cfg \in Configs : cfg.quirks = DefaultQuirks /\ Constructed(cfg)
  /\ phase = "idle" /\ left = 0 /\ trace = << >>
  /\ opcode = -1 /\ exc = "none" /\ event = "init"
  /\ rom_file = RomBytes(RomWaitKey) /\ snapshot = << >> /\ call = NoCall
  /\ window = NoEvents
  /\ now = StartTime /\ next_frame = StartTime
  /\ dt_set = 0 /\ frames_since = 0

SpecQuit == InitQuit /\ [][NextMain]_vars

\* ------------------------------------------------------ main's frame pacing
\* The catch-up loop that adds one frame interval only.
CatchUpOnce(nf, n) == nf + FrameTime

\* while next_frame <= now: next_frame += frame_time.
RECURSIVE CatchUp(_, _)
CatchUp(nf, n) == IF nf <= n THEN CatchUp(nf + FrameTime, n) ELSE nf

\* main on a program that loops forever and on one that halts at once;
\* next_frame is the clock's reading before the loop.
InitPace ==
  /\ \E cfg \in Configs : cfg.quirks = DefaultQuirks /\ Constructed(cfg)
  /\ phase = "idle" /\ left = 0 /\ trace = << >>
  /\ opcode = -1 /\ exc = "none" /\ event = "init"
  /\ rom_file \in { RomBytes(RomTimers), RomBytes(RomRet) }
  /\ snapshot = << >> /\ call = NoCall
  /\ window = NoEvents
  /\ now = StartTime /\ next_frame = StartTime
  /\ dt_set = 0 /\ frames_since = 0

\* now = time.perf_counter(), at the top of the loop: the clock never goes
\* back.
MainReadClock ==
  /\ rom_loaded /\ event \in { "load_rom", "sleep" }
  /\ LET latest == IF now + MaxStall < MaxNow THEN now + MaxStall ELSE MaxNow
     IN  \E t \in now..latest : now' = t
  /\ event' = "read_clock"
  /\ UNCHANGED EngineVars
  /\ UNCHANGED << phase, left, trace, rom_file, next_frame, window, snapshot,
                  call, dt_set, frames_since >>

\* if now >= next_frame: emulator.run_frame().
PaceRunFrame ==
  /\ event = "read_clock" /\ now >= next_frame
  /\ MainRunFrame

\* run_frame returned: the catch-up loop.
MainCatchUp ==
  /\ phase = "idle" /\ exc = "none"
  /\ event \in { "run_frame", "run_frame_halted" }
  /\ next_frame' = CatchUp(next_frame, now)
  /\ event' = "catch_up"
  /\ UNCHANGED EngineVars
  /\ UNCHANGED << phase, left, trace, rom_file, now, window, snapshot, call,
                  dt_set, frames_since >>

\* The end of an iteration: the sleep until the next frame is due, if that is
\* still ahead.
MainSleep ==
  /\ event = "catch_up" \/ (event = "read_clock" /\ now < next_frame)
  /\ event' = "sleep"
  /\ UNCHANGED EngineVars
  /\ UNCHANGED << phase, left, trace, rom_file, now, next_frame, window,
                  snapshot, call, dt_set, frames_since >>

NextPace ==
  \/ /\ ~rom_loaded
     /\ LoadRom
  \/ MainReadClock
  \/ PaceRunFrame
  \/ FrameStep
  \/ FrameEnd
  \/ MainCatchUp
  \/ MainSleep
  \/ MainStopped
  \/ MainCrash

SpecPace == InitPace /\ [][NextPace]_vars

\* ---------------------------------------------------------- the sound alone
\* The values Fx18 passes to set_timer.
SoundValues == { 0, 1, 2, 3, 60 }

\* An engine constructed with the sound enabled or disabled; its Sound object
\* is then called directly.
InitSound ==
  /\ \E cfg \in Configs, on \in BOOLEAN :
       /\ cfg.cycles_per_frame = 1 /\ cfg.backend = "pygame"
       /\ cfg.quirks = DefaultQuirks
       /\ Constructed([cfg EXCEPT !.sound_enabled = on])
  /\ phase = "idle" /\ left = 0 /\ trace = << >>
  /\ opcode = -1 /\ exc = "none" /\ event = "init"
  /\ rom_file = RomBytes(RomTimers) /\ snapshot = << >> /\ call = NoCall
  /\ window = NoEvents
  /\ now = StartTime /\ next_frame = StartTime
  /\ dt_set = 0 /\ frames_since = 0

SoundSet ==
  /\ \E value \in SoundValues : Becomes(set_timer(Engine, value))
  /\ event' = "set_timer"
  /\ UNCHANGED << phase, left, trace, rom_file, now, next_frame, window,
                  snapshot, call, dt_set, frames_since >>

SoundTick ==
  /\ Becomes(Sound_update(Engine))
  /\ event' = "sound_update"
  /\ UNCHANGED << phase, left, trace, rom_file, now, next_frame, window,
                  snapshot, call, dt_set, frames_since >>

NextSound ==
  \/ SoundSet
  \/ SoundTick

SpecSound == InitSound /\ [][NextSound]_vars

\* ----------------------------------------------------------- save and load
\* A host that steps a program and saves and loads snapshots of it.
InitSave ==
  /\ \E cfg \in Configs :
       /\ cfg.cycles_per_frame = 1 /\ cfg.backend = "pygame"
       /\ cfg.quirks = DefaultQuirks
       /\ Constructed(cfg)
  /\ phase = "idle" /\ left = 0 /\ trace = << >>
  /\ opcode = -1 /\ exc = "none" /\ event = "init"
  /\ rom_file \in { RomBytes(RomGrowI), RomBytes(RomCallRet),
                    RomBytes(RomSoundHalt) }
  /\ snapshot = << >> /\ call = NoCall
  /\ window = NoEvents
  /\ now = StartTime /\ next_frame = StartTime
  /\ dt_set = 0 /\ frames_since = 0

\* The host calls save_state.
SaveState ==
  /\ phase = "idle" /\ rom_loaded
  /\ LET w == save_state(Engine)
     IN  Becomes(w.s) /\ snapshot' = << w.r >>
  /\ event' = "save_state" /\ trace' = << >>
  /\ UNCHANGED << phase, left, rom_file, now, next_frame, window, call, dt_set,
                  frames_since >>

\* The host calls load_state on the file save_state wrote.
LoadSaved ==
  /\ phase = "idle" /\ rom_loaded /\ snapshot # << >>
  /\ Becomes(load_state(Engine, snapshot[1]))
  /\ event' = "load_state" /\ trace' = << >>
  /\ dt_set' = snapshot[1].delay_timer /\ frames_since' = 0
  /\ UNCHANGED << phase, left, rom_file, now, next_frame, window, snapshot,
                  call >>

NextSave ==
  \/ /\ ~rom_loaded
     /\ LoadRom
  \/ HostStep
  \/ SaveState
  \/ LoadSaved

SpecSave == InitSave /\ [][NextSave]_vars

\* -------------------------------------------------------- the display alone
\* The arguments Dxyn passes to draw_sprite: Vx and Vy, which may lie beyond
\* the edges, and the bytes of the sprite, as many as its rows.
DrawXs == { 0, 60, 70 }
DrawYs == { 0, 30 }
DrawSprites == { << 255, 255, 255, 255, 255 >>, << 129, 24 >>, << 0 >> }

\* An engine constructed with the wrap quirk off or on; its display is then
\* called directly.
InitDisplay ==
  /\ \E cfg \in Configs :
       /\ cfg.cycles_per_frame = 1 /\ cfg.backend = "pygame"
       /\ Constructed(cfg)
  /\ phase = "idle" /\ left = 0 /\ trace = << >>
  /\ opcode = -1 /\ exc = "none" /\ event = "init"
  /\ rom_file = RomBytes(RomDraw) /\ snapshot = << >> /\ call = NoCall
  /\ window = NoEvents
  /\ now = StartTime /\ next_frame = StartTime
  /\ dt_set = 0 /\ frames_since = 0

DrawCall(xs, ys, sprites) ==
  /\ call.draws < MaxDraws
  /\ \E x \in xs, y \in ys, sprite \in sprites :
       LET d == draw_sprite(pixels, x, y, sprite, Len(sprite),
                            config.quirks.draw_wrap)
       IN  /\ Becomes([Engine EXCEPT !.pixels = d.pixels, !.draw_flag = TRUE])
           /\ call' = [ x |-> x, y |-> y, sprite |-> sprite, before |-> pixels,
                        collision |-> d.collision, draws |-> call.draws + 1 ]
  /\ event' = "draw_sprite"
  /\ UNCHANGED << phase, left, trace, rom_file, now, next_frame, window,
                  snapshot, dt_set, frames_since >>

DisplayDraw == DrawCall(DrawXs, DrawYs, DrawSprites)

DisplayClear ==
  /\ Becomes(clear(Engine))
  /\ call' = NoCall
  /\ event' = "clear"
  /\ UNCHANGED << phase, left, trace, rom_file, now, next_frame, window,
                  snapshot, dt_set, frames_since >>

\* render called on the display.
DisplayRender ==
  /\ Becomes(render(Engine))
  /\ event' = "render"
  /\ UNCHANGED << phase, left, trace, rom_file, now, next_frame, window,
                  snapshot, call, dt_set, frames_since >>

NextDisplay ==
  \/ DisplayDraw
  \/ DisplayClear

SpecDisplay == InitDisplay /\ [][NextDisplay]_vars

\* The display with its three methods called in any order, on two sprites
\* (one of them draws nothing) at two places.
PresentDraw == DrawCall({ 0, 60 }, { 0 }, { << 0 >>, << 129, 24 >> })

NextPresent ==
  \/ PresentDraw
  \/ DisplayClear
  \/ DisplayRender

SpecPresent == InitDisplay /\ [][NextPresent]_vars

\* ------------------------------------------------------------------- claims
\* This transition executed an instruction: a step fetched opcode' at pc.
Executed == event' \in { "step", "frame_step" } /\ opcode' # -1

\* C1: after 8xy4, 8xy5 and 8xy7, VF is 1 iff the carry / not-borrow
\* condition holds on the operands as they were before the instruction
\* (8xy4: Vx + Vy > 255, 8xy5: Vx > Vy, 8xy7: Vy > Vx), also when x or y is F:
\* the VF write is the last one; and Vx (x # F) is the result of those operands
\* masked to 8 bits.
C1_FlagLastAndResultFromOperands ==
  [][ (Executed /\ Op(opcode') = 8 /\ N(opcode') \in { 4, 5, 7 }) =>
        LET x == X(opcode')
            y == Y(opcode')
            n == N(opcode')
            flag == CASE n = 4 -> V[x] + V[y] > 255
                      [] n = 5 -> V[x] > V[y]
                      [] n = 7 -> V[y] > V[x]
            result == CASE n = 4 -> (V[x] + V[y]) % 256
                        [] n = 5 -> (V[x] - V[y]) % 256
                        [] n = 7 -> (V[y] - V[x]) % 256
        IN  /\ V'[15] = IF flag THEN 1 ELSE 0
            /\ x # 15 => V'[x] = result ]_vars

\* C2: a 2nnn executed with fewer than sixteen addresses on the stack pushes
\* the address of the instruction after the call, increments the stack pointer
\* and jumps; executed with sixteen it raises the stack-overflow error and
\* sets halted, stack and stack pointer unchanged.  A 00EE executed with
\* stack pointer 0 raises the stack-underflow error and sets halted;
\* otherwise it pops the most recently pushed address into PC.
C2_CallAndReturn ==
  [][ Executed =>
        /\ (Op(opcode') = 2 /\ sp < 16) =>
              /\ stack' = [stack EXCEPT ![sp] = pc + 2]
              /\ sp' = sp + 1 /\ pc' = Nnn(opcode')
              /\ exc' = "none" /\ ~halted'
        /\ (Op(opcode') = 2 /\ sp >= 16) =>
              /\ exc' = "RuntimeError: Stack overflow on CALL" /\ halted'
              /\ UNCHANGED << stack, sp >>
        /\ (opcode' = \h00EE /\ sp = 0) =>
              /\ exc' = "RuntimeError: Stack underflow on RET" /\ halted'
              /\ UNCHANGED << stack, sp >>
        /\ (opcode' = \h00EE /\ sp > 0) =>
              /\ pc' = stack[sp - 1] /\ sp' = sp - 1 /\ UNCHANGED stack
              /\ exc' = "none" /\ ~halted' ]_vars

\* Sixteen calls in a row were made from the empty stack of RomCallSelf and
\* the seventeenth was refused.
C2_SeventeenthCallRefused ==
  /\ rom_file = RomBytes(RomCallSelf)
  /\ sp = 16 /\ \A i \in 0..15 : stack[i] = \h202
  /\ halted /\ exc = "RuntimeError: Stack overflow on CALL"

\* C3: whatever the host calls among load_rom, step, run_frame and reset, on
\* any of the programs, the stack pointer is within 0..16, and a call or
\* return that would take it out of that range ends in halted.
C3_StackPointerInRange ==
  /\ sp \in 0..16
  /\ exc \in { "RuntimeError: Stack overflow on CALL",
               "RuntimeError: Stack underflow on RET" } =>
       halted /\ sp = (IF exc = "RuntimeError: Stack overflow on CALL" THEN 16 ELSE 0)

\* The stack is full and the engine still runs.
C3_StackFull == sp = 16 /\ ~halted /\ event = "frame_step"

\* C4: Fx33, Fx55 and Fx65 whose range I..I+2 (I..I+x) passes the end of
\* memory are refused as a fatal fault: halted is set and nothing is stored
\* or loaded.
C4_AccessPastMemoryIsFatal ==
  [][ (Executed /\ Op(opcode') = 15 /\ Nn(opcode') \in { \h33, \h55, \h65 }
         /\ I + (IF Nn(opcode') = \h33 THEN 2 ELSE X(opcode')) >= MEMORY_SIZE) =>
        halted' /\ UNCHANGED << memory, V >> ]_vars

\* The exceptions of the fatal faults.
FatalFaults ==
  { "RuntimeError: PC out of bounds", "RuntimeError: Stack underflow on RET",
    "RuntimeError: Stack overflow on CALL",
    "RuntimeError: Sprite fetch out of memory bounds" }

\* The pixels that the set bits of the n bytes from address a address, drawn
\* from (x, y): wrapped around the edges or clipped at them.
Toggled(mem, a, n, x, y, wrap) ==
  LET bits == { rc \in (0..(n - 1)) \X (0..7) :
                  (Peek(mem, a + rc[1]) \div (2 ^ (7 - rc[2]))) % 2 = 1 }
      at == { << x + rc[2], y + rc[1] >> : rc \in bits }
  IN  IF wrap THEN { << p[1] % 64, p[2] % 32 >> : p \in at }
      ELSE { p \in at : p[1] < 64 /\ p[2] < 32 }

\* C5: Dxyn with I + n > 4096 raises the sprite error, sets halted and leaves
\* display and registers as they are; otherwise it toggles the pixels that the
\* set bits of memory[I..I+n-1] address from (Vx, Vy) and no other, and sets
\* VF to 1 if a pixel that was set is now unset and to 0 if none is, other
\* registers unchanged.
C5_DrawOrSpriteFault ==
  [][ (Executed /\ Op(opcode') = 13) =>
        LET n == N(opcode')
        IN  IF I + n > 4096
            THEN /\ exc' = "RuntimeError: Sprite fetch out of memory bounds"
                 /\ halted' /\ UNCHANGED << pixels, V >>
            ELSE /\ exc' = "none" /\ ~halted'
                 /\ (pixels \ pixels') \cup (pixels' \ pixels) =
                      Toggled(memory, I, n, V[X(opcode')], V[Y(opcode')],
                              config.quirks.draw_wrap)
                 /\ V'[15] = IF pixels \ pixels' # {} THEN 1 ELSE 0
                 /\ \A i \in 0..14 : V'[i] = V[i] ]_vars

\* A sprite that passes the end of memory was refused after the display was
\* drawn on.
C5_SpriteRefused ==
  /\ exc = "RuntimeError: Sprite fetch out of memory bounds" /\ halted
  /\ I = \hFFC /\ N(opcode) = 5 /\ pixels # {}

\* C6: a step of a running engine whose key poll raised nothing fetches: with
\* PC or PC + 1 at or past 4096 it raises the out-of-bounds error, sets halted
\* and leaves PC and the rest of the engine as they are; otherwise the opcode
\* is memory[PC] * 256 + memory[PC + 1] and PC is PC + 2 when the instruction
\* is executed (what an instruction that does not jump leaves, what a skip
\* adds 2 to, what a call pushes).
C6_Fetch ==
  [][ (event' \in { "step", "frame_step" } /\ ~halted
         /\ ~(exc' = "KeyboardInterrupt" /\ opcode' = -1)) =>
        IF pc >= 4096 \/ pc + 1 >= 4096
        THEN /\ exc' = "RuntimeError: PC out of bounds" /\ halted' /\ opcode' = -1
             /\ UNCHANGED << pc, memory, V, I, stack, sp, delay_timer, timer,
                             pixels >>
        ELSE /\ opcode' = Peek(memory, pc) * 256 + Peek(memory, pc + 1)
             /\ (Op(opcode') \in { 6, 7, 8, 10, 12, 13, 15 } \/ opcode' = \h00E0)
                  => pc' = pc + 2
             /\ Op(opcode') \in { 3, 4, 5, 9, 14 } => pc' \in { pc + 2, pc + 4 }
             /\ (Op(opcode') = 2 /\ sp < 16) => stack'[sp] = pc + 2 ]_vars

\* A fetch at the last byte of memory was refused.
C6_FetchRefusedAtLastByte ==
  pc = 4095 /\ halted /\ exc = "RuntimeError: PC out of bounds" /\ opcode = -1

\* What a step may change of the engine.
EngineState ==
  << memory, V, stack, sp, pc, I, delay_timer, halted, timer, playing, pixels,
     draw_flag, keys >>

\* C7 as claimed: once halted is true it stays true across step, run_frame,
\* load_rom and load_state.
C7_HaltedSurvivesLoadRom ==
  [][ (halted /\ event' \in { "step", "run_frame_begin", "frame_step",
                              "run_frame", "run_frame_halted", "load_rom",
                              "load_state" }) => halted' ]_vars

\* C7 as amended: halted is false after construction, becomes true only with
\* one of the fatal faults, and once true stays true across step, run_frame
\* and load_state, a step changing nothing of the engine meanwhile; reset and
\* load_rom make it false.
C7_HaltedLatch ==
  /\ ~halted
  /\ [][ /\ (~halted /\ halted') =>
              (event' \in { "step", "frame_step" } /\ exc' \in FatalFaults)
         /\ (halted /\ event' \notin { "reset", "load_rom" }) => halted'
         /\ (halted /\ event' = "step") => UNCHANGED EngineState
         /\ event' \in { "reset", "load_rom" } => ~halted' ]_vars

\* A snapshot was loaded into a halted engine, which is still halted.
C7_HaltedAfterLoadState == halted /\ event = "load_state" /\ sp = 18

\* C8: run_frame on a halted engine polls no input and executes no
\* instruction; it counts the delay timer and the sound timer down by one
\* each (when nonzero) and asks the display to present once.
C8_HaltedFrame ==
  [][ /\ (halted /\ event' = "run_frame_halted") =>
            /\ trace' = << "tick", "present" >> /\ opcode' = -1
            /\ delay_timer' = IF delay_timer > 0 THEN delay_timer - 1 ELSE 0
            /\ timer' = IF timer > 0 THEN timer - 1 ELSE 0
            /\ ~draw_flag'
            /\ UNCHANGED << memory, V, stack, sp, pc, I, halted, pixels,
                            keys >>
      /\ halted => event' \notin { "run_frame_begin", "frame_step", "run_frame" }
    ]_vars

\* The sound of RomSoundHalt, 2 ticks long when the engine halted, after one
\* run_frame call on the halted engine.
C8_SoundDecaysAfterHalt ==
  /\ rom_file = RomBytes(RomSoundHalt) /\ halted
  /\ event = "run_frame_halted" /\ timer = 1

\* C9: a run_frame call on a running engine that ended, normally or with a
\* fatal fault, has drained the window's events (pygame backend), then made
\* cycles_per_frame steps or fewer if halted, then ticked the timers once,
\* then asked for one present.
C9_FrameOrder ==
  (phase = "idle" /\ event \in { "frame_step", "run_frame" }
     /\ exc \in FatalFaults \cup { "none" }) =>
    \E k \in 0..config.cycles_per_frame :
      /\ trace = (IF config.backend = "pygame" THEN << "poll" >> ELSE << >>)
                   \o [i \in 1..k |-> "step"] \o << "tick", "present" >>
      /\ k = config.cycles_per_frame \/ halted

C11_FaultLeavesLoopRunning == halted => event # "main_crash"

\* C12 as claimed: the cue fires on a tick iff the timer is > 0 at that tick
\* and the timer was not already sounding; a tick with timer 0 fires nothing
\* and leaves the timer at 0.
C12_CueOnRisingEdge ==
  [][ event' = "sound_update" =>
        /\ bell' <=> (timer > 0 /\ ~playing)
        /\ timer = 0 => timer' = 0 ]_vars

\* C12 as amended: with the sound enabled the cue fires on a tick iff the
\* timer is > 0 and was not sounding, and with the sound disabled never; either
\* way a tick counts a nonzero timer down by one and leaves it sounding iff it
\* is still nonzero, a tick with timer 0 leaves it at 0 and silent, and
\* set_timer fires nothing and ends the sounding only when it writes 0: so one
\* period of a nonzero timer has one cue, on its first tick.
C12_CueOnRisingEdgeWhenEnabled ==
  [][ /\ event' = "sound_update" =>
           /\ bell' <=> (timer > 0 /\ ~playing /\ config.sound_enabled)
           /\ timer' = IF timer > 0 THEN timer - 1 ELSE 0
           /\ playing' <=> timer' > 0
      /\ event' = "set_timer" =>
           /\ ~bell'
           /\ playing' <=> (playing /\ timer' > 0) ]_vars

\* A tick inside a sounding period, which fired nothing, after the tick that
\* began the period.
C12_SilentTickWhileSounding ==
  /\ event = "sound_update" /\ config.sound_enabled
  /\ playing /\ ~bell /\ timer = 58

\* C13: in every state the instructions reach, save_state succeeds, and
\* load_state of the file it wrote gives the memory, registers, stack, PC, I,
\* stack pointer, delay timer and sound timer that were saved.
C13_SnapshotRoundTrip ==
  event = "save_state" =>
    /\ exc = "none"
    /\ LET s == load_state(Engine, snapshot[1])
       IN  /\ s.memory = memory /\ s.V = V /\ s.stack = stack
           /\ s.pc = pc /\ s.I = I /\ s.sp = sp
           /\ s.delay_timer = delay_timer /\ s.timer = timer

\* The bytes of a sprite as the memory they would be fetched from, at 0.
SpriteMemory(sprite) == [i \in 0..(Len(sprite) - 1) |-> sprite[i + 1]]

\* C14: draw_sprite changes the pixels that the set bits of the sprite
\* address and no other: without wrap bit (row, col) addresses
\* (x + col, y + row) when x + col < 64 and y + row < 32 and nothing
\* otherwise, so a sprite drawn at x = 60 leaves column 0 alone; with wrap it
\* addresses ((x + col) mod 64, (y + row) mod 32).
C14_ClipOrWrap ==
  [][ event' = "draw_sprite" =>
        LET changed == (pixels \ pixels') \cup (pixels' \ pixels)
            wrap == config.quirks.draw_wrap
        IN  /\ changed = Toggled(SpriteMemory(call'.sprite), 0, Len(call'.sprite),
                                 call'.x, call'.y, wrap)
            /\ (~wrap /\ call'.x = 60) => \A p \in changed : p[1] >= 60
            /\ (wrap /\ call'.x = 60 /\ call'.sprite[1] = 255) =>
                 \E p \in changed : p[1] = 0 ]_vars

\* The full-width pattern of 5 rows drawn at (60, 0) on a clear display
\* without wrap: columns 60 to 63 of rows 0 to 4 are set, and no other pixel.
C14_ClippedAtRightEdge ==
  /\ event = "draw_sprite" /\ ~config.quirks.draw_wrap
  /\ call.x = 60 /\ call.y = 0 /\ call.sprite = << 255, 255, 255, 255, 255 >>
  /\ call.before = {} /\ pixels = (60..63) \X (0..4)

\* C15 as claimed: a draw_sprite call with the arguments of the call before
\* it gives back the pixels that were there before the first of the two, and
\* when those were none the first call returned false and the second true.
C15_SecondDrawCollides ==
  [][ ( /\ event = "draw_sprite" /\ event' = "draw_sprite"
        /\ call'.x = call.x /\ call'.y = call.y /\ call'.sprite = call.sprite ) =>
        /\ pixels' = call.before
        /\ call.before = {} => (~call.collision /\ call'.collision) ]_vars

\* C15 as amended: the same, but the second call returns true iff the first
\* one set a pixel, false for a sprite without a set bit on the screen.
C15_DrawTwiceRestores ==
  [][ ( /\ event = "draw_sprite" /\ event' = "draw_sprite"
        /\ call'.x = call.x /\ call'.y = call.y /\ call'.sprite = call.sprite ) =>
        /\ pixels' = call.before
        /\ call.before = {} =>
             (~call.collision /\ (call'.collision <=> pixels # {})) ]_vars

\* A sprite drawn twice on a clear display: the second draw reported the
\* collision and left the display clear.
C15_DrawnTwiceOnClear ==
  /\ event = "draw_sprite" /\ call.draws = 2
  /\ call.before # {} /\ call.collision /\ pixels = {}

\* C16: 8xy6 and 8xyE take Vy as the source with the shift quirk and Vx
\* without it, leave in Vx the source shifted by one bit and masked to 8 bits
\* and in VF the bit shifted out, VF being written last (so VF is the flag
\* also when x = F), and change no other register; with Vx # Vy the two
\* settings of the quirk therefore give different (Vx, VF).
C16_ShiftFlagLast ==
  [][ (Executed /\ Op(opcode') = 8 /\ N(opcode') \in { 6, 14 }) =>
        LET x == X(opcode')
            source(legacy) == IF legacy THEN V[Y(opcode')] ELSE V[x]
            shifted(legacy) ==
              IF N(opcode') = 6 THEN source(legacy) \div 2
              ELSE (source(legacy) * 2) % 256
            out(legacy) ==
              IF N(opcode') = 6 THEN source(legacy) % 2
              ELSE source(legacy) \div 128
            q == config.quirks.shift_legacy
        IN  /\ V'[15] = out(q)
            /\ x # 15 => V'[x] = shifted(q)
            /\ \A i \in 0..14 : i # x => V'[i] = V[i]
            /\ (N(opcode') = 6 /\ V[x] # V[Y(opcode')]) =>
                 << shifted(q), out(q) >> # << shifted(~q), out(~q) >> ]_vars

\* C17: 7xnn leaves (Vx + nn) mod 256 in Vx and every other register, VF
\* among them, as it was; 6x00, 7xFF, 7x02 leave Vx = 1.
C17_AddImmediate ==
  [][ (Executed /\ Op(opcode') = 7) =>
        /\ V'[X(opcode')] = (V[X(opcode')] + Nn(opcode')) % 256
        /\ \A i \in 0..15 : i # X(opcode') => V'[i] = V[i]
        /\ UNCHANGED << I, sp, stack, memory >>
        /\ ( /\ \E x \in 0..15 :
                  rom_file = RomBytes(<< \h6F00, \h6000 + 256 * x,
                                         \h70FF + 256 * x, \h7002 + 256 * x >>)
             /\ pc' = ROM_BASE + 8 ) => V'[X(opcode')] = 1 ]_vars

\* 6F03, 6000, 70FF, 7002 were executed: V0 wrapped to 1 and VF is still 3.
C17_WrappedToOne ==
  /\ rom_file = RomBytes(<< \h6F03, \h6000, \h70FF, \h7002 >>)
  /\ opcode = \h7002 /\ pc = ROM_BASE + 8 /\ V[0] = 1 /\ V[15] = 3

\* The opcodes of a known class that are no instruction.
Unrecognized(o) ==
  \/ Op(o) = 0 /\ o \notin { \h00E0, \h00EE }
  \/ Op(o) \in { 5, 9 } /\ N(o) # 0
  \/ Op(o) = 8 /\ N(o) \in (8..13) \cup { 15 }
  \/ Op(o) = 14 /\ Nn(o) \notin { \h9E, \hA1 }
  \/ Op(o) = 15 /\ Nn(o) \notin { \h07, \h0A, \h15, \h18, \h1E, \h29, \h33,
                                  \h55, \h65 }

\* C18: a step that fetches an unrecognized opcode of a known class raises
\* nothing and leaves halted false, PC advanced by 2, and memory, V, I, stack,
\* sp, both timers and the display as they were.
C18_UnknownOpcodeOnlyAdvances ==
  [][ (Executed /\ Unrecognized(opcode')) =>
        /\ exc' = "none" /\ ~halted' /\ pc' = pc + 2
        /\ UNCHANGED << memory, V, I, stack, sp, delay_timer, timer, pixels >>
    ]_vars

\* 9011 was executed twice with V0 # V1: nothing was skipped and registers,
\* I and timers are as the program set them.
C18_NineWithNibbleOne ==
  /\ opcode = \h9011 /\ pc = ROM_BASE + 12 /\ ~halted
  /\ V[0] = 3 /\ V[1] = 0 /\ I = \h123 /\ delay_timer = 3 /\ timer = 3

\* The registers as the programs of StoreRoms load them before Fx55.
StoredV == [i \in 0..15 |-> CASE i = 0 -> 7 [] i = 1 -> 9 [] i = 2 -> 5
                                 [] i = 15 -> 3 [] OTHER -> 0]

\* C19: with I..I+x inside memory, Fx55 leaves V0..Vx in memory[I..I+x] and
\* every other cell and every register as it was; Fx65 leaves memory[I..I+x]
\* in V0..Vx and the registers above x and memory as they were; after either,
\* I is x + 1 more with the load/store quirk and unchanged without; without
\* the quirk Fx65 after Fx55 finds V0..Vx as they were stored.
C19_StoreAndLoad ==
  [][ ( /\ Executed /\ Op(opcode') = 15 /\ Nn(opcode') \in { \h55, \h65 }
        /\ I + X(opcode') < MEMORY_SIZE ) =>
        LET x == X(opcode')
            quirk == config.quirks.load_store_increment_i
        IN  /\ exc' = "none"
            /\ I' = IF quirk THEN I + x + 1 ELSE I
            /\ Nn(opcode') = \h55 =>
                 /\ \A i \in 0..x : Peek(memory', I + i) = V[i]
                 /\ \A a \in (DOMAIN memory \cup DOMAIN memory') \ (I..(I + x)) :
                      Peek(memory', a) = Peek(memory, a)
                 /\ V' = V
            /\ Nn(opcode') = \h65 =>
                 /\ \A i \in 0..x : V'[i] = Peek(memory, I + i)
                 /\ \A i \in (x + 1)..15 : V'[i] = V[i]
                 /\ memory' = memory
            /\ (Nn(opcode') = \h65 /\ ~quirk /\ rom_file \in StoreRoms) =>
                 \A i \in 0..x : V'[i] = StoredV[i] ]_vars

\* All sixteen registers were stored at 0x300, overwritten, and loaded back
\* by FF65 without the quirk.
C19_LoadedBack ==
  /\ opcode = \hFF65 /\ ~config.quirks.load_store_increment_i /\ I = \h300
  /\ Len(rom_file) = 22 /\ V = StoredV
  /\ Peek(memory, \h300) = 7 /\ Peek(memory, \h30F) = 3

\* C20: Fx29 leaves in I the address of the glyph of the low nibble of Vx,
\* 5 * (Vx mod 16), one of the sixteen 5-byte glyphs at the start of memory.
C20_GlyphOfLowNibble ==
  [][ (Executed /\ Op(opcode') = 15 /\ Nn(opcode') = \h29) =>
        /\ I' = 5 * (V[X(opcode')] % 16)
        /\ I' + 5 <= Len(FONTSET) ]_vars

\* C21: a render call after the first redraw redraws the screen iff the
\* pixel buffer differs from what the redraw before it drew, and a render call
\* on an unchanged buffer changes nothing.
C21_RedrawIffChanged ==
  [][ (event' = "render" /\ screen # << >>) =>
        /\ redrawn' <=> (pixels # screen[1])
        /\ pixels = screen[1] =>
             (screen' = screen /\ draw_flag' = draw_flag) ]_vars

\* C22: when main's loop ends on a quit signal, the call that raised it left
\* no instruction half done (it fetched nothing, so PC stands where the last
\* completed instruction left it), the sound is stopped (timer 0, not
\* sounding), and nothing runs after the loop has ended.
C22_QuitBetweenInstructions ==
  [][ /\ exc' = "KeyboardInterrupt" => (opcode' = -1 /\ pc' = pc)
      /\ event' = "main_stopped" => (timer' = 0 /\ ~playing')
      /\ event # "main_stopped" ]_vars

\* C23: main calls run_frame only on a reading of the clock with
\* now >= next_frame, and after such a reading it does nothing else; when the
\* call has returned, next_frame moves by whole frame intervals to the first
\* value greater than now, so that it stays congruent to its first value modulo
\* the frame interval and the next call needs a later reading of the clock,
\* however long the stall was.
C23_OneFramePerLateTick ==
  [][ /\ event' \in { "run_frame_begin", "run_frame_halted" } =>
           (event = "read_clock" /\ now >= next_frame)
      /\ (event = "read_clock" /\ now >= next_frame) =>
           event' \in { "run_frame_begin", "run_frame_halted" }
      /\ event' = "catch_up" =>
           /\ next_frame' > now /\ next_frame' - FrameTime <= now
           /\ next_frame' > next_frame
      /\ next_frame' % FrameTime = StartTime % FrameTime
      /\ next_frame' # next_frame => event' = "catch_up" ]_vars

\* A stall of more than two frame intervals before the first frame: one
\* run_frame call, and next_frame three intervals on.
C23_CaughtUpAfterStall ==
  /\ event = "catch_up" /\ dt_set = 10 /\ frames_since = 1
  /\ now >= StartTime + (2 * FrameTime)
  /\ next_frame >= StartTime + (3 * FrameTime)

\* C24: the index register is a 16-bit value in every reachable state.
C24_IndexIsSixteenBit == I \in 0..65535

\* C25: every executed Ex9E and ExA1 completes without a fault, whatever the
\* value of Vx in 0..255: Ex9E adds 2 more to PC iff the key Vx selects is
\* pressed, ExA1 iff it is not, and nothing but PC (and the keys the step's
\* poll recorded) changes.
C25_KeySkipNeverFaults ==
  [][ (Executed /\ Op(opcode') = 14 /\ Nn(opcode') \in { 158, 161 }) =>
        LET vx == V[X(opcode')]
        IN  /\ exc' = "none"
            /\ pc' \in { pc + 2, pc + 4 }
            /\ vx < 16 => (pc' = pc + 4 <=> ((Nn(opcode') = 158) = keys'[vx]))
            /\ EngineState' =
                 [EngineState EXCEPT ![5] = pc', ![13] = keys'] ]_vars

\* C26: the jump quirk flag has no influence.  In every reachable state, each
\* call the host can make (load_rom, step, reset, the poll, the tick and the
\* present of run_frame) on the engine with the flag inverted, with the same
\* inputs, gives the state the call gives on the engine itself, with the flag
\* inverted; and every executed Bnnn sets PC to nnn + V0.
C26_JumpQuirkIgnored ==
  [][ /\ load_rom(Flip(Engine), rom_file) = Flip(load_rom(Engine, rom_file))
      /\ reset(Flip(Engine)) = Flip(reset(Engine))
      /\ \A chars \in StepChars, rnd \in StepRand, key \in StepKeys :
           step(Flip(Engine), chars, rnd, key)
             = Flip(step(Engine, chars, rnd, key))
      /\ \A evs \in EventBatches :
           PollEvents(Flip(Engine), evs) = Flip(PollEvents(Engine, evs))
      /\ render(update_timers(Flip(Engine)))
           = Flip(render(update_timers(Engine)))
      /\ (Executed /\ Op(opcode') = 11) => pc' = Nnn(opcode') + V[0] ]_vars

\* B206 was executed with the flag set, V0 = 4 and V2 = 0.
C26_JumpedByV0 ==
  /\ config.quirks.jump_with_v0_quirk
  /\ opcode = \hB206 /\ V[0] = 4 /\ V[2] = 0 /\ pc = \h20A

\* C27: with the pygame input handler, keys[k] is true iff the last event the
\* window produced for key k, among those the engine has taken from the queue
\* (in a frame's drain or during a wait of Fx0A), was a KEYDOWN.
C27_KeysFollowWindow ==
  config.backend = "pygame" =>
    \A k \in 0..15 : keys[k] <=> (window[k] = "KEYDOWN")

\* C28: with the terminal input handler a key that is recorded as pressed
\* stays so through every later call (load_rom, step, run_frame, reset), and
\* from then on every executed Ex9E on it skips and every ExA1 on it does not.
C28_PressedKeyStaysPressed ==
  [][ config.backend = "terminal" =>
        /\ \A k \in 0..15 : keys[k] => keys'[k]
        /\ ( /\ Executed /\ Op(opcode') = 14 /\ Nn(opcode') \in { 158, 161 }
             /\ V[X(opcode')] < 16 /\ keys[V[X(opcode')]] ) =>
             pc' = IF Nn(opcode') = 158 THEN pc + 4 ELSE pc + 2 ]_vars

\* Key 0 was recorded by the terminal handler, and the engine was reset since.
C28_PressedAcrossReset ==
  /\ config.backend = "terminal" /\ keys[0]
  /\ event = "reset" /\ pc = ROM_BASE /\ V[0] = 0

====
